---- MODULE Spec2Model ----
(***************************************************************************)
(* Model of the two Library of Congress batch-retrieval scripts:           *)
(*   code/scripts/library_of_congress/loc_maps.py          ("loc_maps")    *)
(*   code/scripts/library_of_congress/loc_sanborn_maps.py  ("loc_sanborn") *)
(* A text string is a sequence of one-character strings, so that str(),    *)
(* zfill(), join(), regex substitution and Path.with_suffix() are computed *)
(* character by character, as Python computes them.                        *)
(***************************************************************************)
EXTENDS Integers, Sequences, FiniteSets

VARIABLES
    script,        \* which of the two scripts runs
    config_fault,  \* "none", "unreadable" (open() fails) or "no_key" (KeyError)
    config,        \* the loaded YAML values: host, naming metadata, paths
    pc,            \* position of main()
    path_ix,       \* 1-based position of the outer loop in config.paths
    i,             \* the inner loop variable
    response,      \* the object returned by requests.get for the current item
    log,           \* records handed to the logger, in order
    log_name,      \* file name of the log file handler
    requests,      \* HTTP GET calls made so far, in order
    writes,        \* write_file calls made so far, in order
    files,         \* content of the output directory: file name -> bytes
    exit_code      \* <<>> while running, <<0>> or <<1>> once the process ended

vars == <<script, config_fault, config, pc, path_ix, i, response, log, log_name,
          requests, writes, files, exit_code>>

-----------------------------------------------------------------------------
(* Bounds of the model *)

MaxRange == 2   \* largest index_stop - index_start of a path
MaxPaths == 2   \* largest number of paths of a job

-----------------------------------------------------------------------------
(* Python string primitives *)

DigitChars == <<"0", "1", "2", "3", "4", "5", "6", "7", "8", "9">>

IsDigit(c) == \E d \in 1..10 : DigitChars[d] = c

Max(S) == CHOOSE x \in S : \A y \in S : y <= x

RECURSIVE str(_)
str(n) ==
    IF n < 0 THEN <<"-">> \o str(0 - n)
    ELSE IF n < 10 THEN <<DigitChars[n + 1]>>
    ELSE str(n \div 10) \o <<DigitChars[(n % 10) + 1]>>

Zeros(n) == [k \in 1..n |-> "0"]

zfill_truncating(s, width) ==
    IF Len(s) >= width
    THEN (IF width > 0 THEN SubSeq(s, Len(s) - width + 1, Len(s)) ELSE s)
    ELSE Zeros(width - Len(s)) \o s

zfill(s, width) ==
    IF Len(s) >= width THEN s
    ELSE IF Len(s) > 0 /\ s[1] \in {"+", "-"}
         THEN <<s[1]>> \o Zeros(width - Len(s)) \o Tail(s)
         ELSE Zeros(width - Len(s)) \o s

RECURSIVE join(_, _)
join(sep, segments) ==
    IF segments = <<>> THEN <<>>
    ELSE IF Len(segments) = 1 THEN segments[1]
    ELSE segments[1] \o sep \o join(sep, Tail(segments))

\* PurePath.suffix: the text from the last '.', unless it is the first or the
\* last character of the name
path_suffix(name) ==
    LET dots == {k \in 1..Len(name) : name[k] = "."}
        k == IF dots = {} THEN 0 ELSE Max(dots)
    IN  IF 1 < k /\ k < Len(name) THEN SubSeq(name, k, Len(name)) ELSE <<>>

with_suffix_appending(name, suffix) == name \o suffix

\* PurePath.with_suffix: the existing suffix is replaced
with_suffix(name, suffix) ==
    SubSeq(name, 1, Len(name) - Len(path_suffix(name))) \o suffix

-----------------------------------------------------------------------------
(* Regular expressions of the configuration.  The patterns the scripts are *)
(* written for (r"_1925-[0-9]*", "_PLACEHOLDER") are a literal text        *)
(* optionally followed by [0-9]*: regex = [lit, digits].                   *)

RECURSIVE digits_end(_, _)
digits_end(string, p) ==
    IF p <= Len(string) /\ IsDigit(string[p]) THEN digits_end(string, p + 1) ELSE p

\* end (exclusive) of the match of regex starting at position p, 0 if none
match_end(regex, string, p) ==
    LET n == Len(regex.lit)
    IN  IF p + n - 1 <= Len(string) /\ SubSeq(string, p, p + n - 1) = regex.lit
        THEN (IF regex.digits THEN digits_end(string, p + n) ELSE p + n)
        ELSE 0

RECURSIVE sub_from(_, _, _, _)
sub_from(regex, repl, string, p) ==
    IF p > Len(string) THEN <<>>
    ELSE LET e == match_end(regex, string, p)
         IN  IF e > 0 THEN repl \o sub_from(regex, repl, string, e)
             ELSE <<string[p]>> \o sub_from(regex, repl, string, p + 1)

sub_or_append(regex, repl, string) ==
    LET out == sub_from(regex, repl, string, 1)
    IN  IF out = string THEN string \o repl ELSE out

\* Pattern.sub(repl, string): every non-overlapping match, leftmost first
sub(regex, repl, string) == sub_from(regex, repl, string, 1)

-----------------------------------------------------------------------------
(* Filename builders *)

DASH == <<"-">>
VOL  == <<"v", "o", "l", "_">>
JPG  == <<".", "j", "p", "g">>
LOG  == <<".", "l", "o", "g">>
NONE == <<"N", "o", "n", "e">>
SANBORN_LOC == <<"S", "a", "n", "b", "o", "r", "n", "-", "L", "O", "C">>

\* An optional integer is <<>> (None) or <<n>>; an optional text is <<>>
\* (None and '' are both falsy and are nowhere told apart) or the text.
truthy_int(v) == v # <<>> /\ v[1] # 0
format_int(v) == IF v = <<>> THEN NONE ELSE str(v[1])

\* loc_maps.create_filename
create_filename(name_segments, part, num, extension) ==
    LET s0 == name_segments.name
        s1 == IF truthy_int(name_segments.year)
              THEN Append(s0, str(name_segments.year[1])) ELSE s0
        s2 == IF name_segments.vol # <<>>
              THEN Append(s1, VOL \o name_segments.vol) ELSE s1
    IN  IF extension = LOG THEN with_suffix(join(DASH, s2), extension)
        ELSE LET s3 == IF name_segments.vol # <<>>
                       THEN Append(s2, VOL \o name_segments.vol) ELSE s2
                 s4 == IF part # <<>> THEN Append(s3, part) ELSE s3
                 s5 == IF num # <<>>
                       THEN Append(s4, IF Len(num) < 4 THEN zfill(num, 4) ELSE num)
                       ELSE s4
             IN  with_suffix(join(DASH, s5), extension)

\* loc_sanborn_maps.create_filename
sanborn_create_filename(municipality, image_id, part) ==
    LET f0 == SANBORN_LOC \o DASH \o municipality.name \o DASH \o municipality.state
                  \o DASH \o format_int(municipality.year)
        f1 == IF municipality.vol # <<>> THEN f0 \o DASH \o VOL \o municipality.vol ELSE f0
        f2 == IF part # <<>> THEN f1 \o DASH \o part ELSE f1
        id == IF Len(image_id) < 4 THEN zfill(image_id, 4) ELSE image_id
    IN  f2 \o DASH \o id \o <<".">> \o municipality.extension

\* loc_sanborn_maps.configure_logger: the log file's name (under output_path)
sanborn_log_filename(municipality) ==
    LET f0 == SANBORN_LOC \o DASH \o municipality.name \o DASH \o municipality.state
                  \o DASH \o format_int(municipality.year)
        f1 == IF municipality.vol # <<>> THEN f0 \o DASH \o VOL \o municipality.vol ELSE f0
    IN  f1 \o LOG

-----------------------------------------------------------------------------
(* One item of the inner loop *)

\* "Add zfill if required"
num_of(s, path, idx) ==
    IF s = "loc_maps"
    THEN (IF path.zfill_width > 0 THEN zfill(str(idx), path.zfill_width) ELSE str(idx))
    ELSE (IF path.pad_num THEN zfill(str(idx), 4) ELSE str(idx))

repl_of(s, path, idx) == path.prefix \o num_of(s, path, idx)

resource_url_of(s, host, path, idx) ==
    host \o sub(path.regex, repl_of(s, path, idx), path.default_path)

item_filename_unpadded(s, naming, path, idx) ==
    IF s = "loc_maps"
    THEN create_filename(naming, path.part, str(idx), JPG)
    ELSE sanborn_create_filename(naming, str(idx), path.part)

\* the file name main() gives the item: the builder is handed num, not i
item_filename(s, naming, path, idx) ==
    IF s = "loc_maps"
    THEN create_filename(naming, path.part, num_of(s, path, idx), JPG)
    ELSE sanborn_create_filename(naming, num_of(s, path, idx), path.part)

write_data_checked(resp) == IF resp.status = 200 THEN resp.content ELSE "empty"

\* the bytes handed to write_file: response.content, whatever the status
write_data(resp) == resp.content

range_next_skipping(idx) == idx + 2

\* range(start, stop, 1)
range_next(idx) == idx + 1

-----------------------------------------------------------------------------
(* Configurations the runs are started with *)

Host == <<"h">>

\* (default_path, regex): one match, no match, two matches
Templates ==
    { [default_path |-> <<"/", "m", "_", "7">>, regex |-> [lit |-> <<"_">>, digits |-> TRUE]],
      [default_path |-> <<"/", "m", "x", "7">>, regex |-> [lit |-> <<"_">>, digits |-> TRUE]],
      [default_path |-> <<"/", "_", "1", "/", "_">>, regex |-> [lit |-> <<"_">>, digits |-> FALSE]] }

\* (prefix, part) of a path: the prefix goes into the URL only, the part into
\* the file name only
Labels   == { [prefix |-> <<>>, part |-> <<>>], [prefix |-> <<"p">>, part |-> <<"a">>] }
Starts   == { 9, 9999 }
Widths   == { 0, 1, 4, 6 }

MakePath(prefix, part, t, start, n, width, pad) ==
    [prefix |-> prefix, part |-> part, default_path |-> t.default_path, regex |-> t.regex,
     index_start |-> start, index_stop |-> start + n, zfill_width |-> width, pad_num |-> pad]

\* paths of loc_maps_config.yml (index.zfill_width) and of loc_sanborn_params.yml (pad_num)
FirstPaths(s) ==
    IF s = "loc_maps"
    THEN { MakePath(x.prefix, x.part, t, b, n, w, FALSE) :
             x \in Labels, t \in Templates, b \in Starts,
             n \in 0..MaxRange, w \in Widths }
    ELSE { MakePath(x.prefix, x.part, t, b, n, 0, d) :
             x \in Labels, t \in Templates, b \in Starts,
             n \in 0..MaxRange, d \in BOOLEAN }

\* the paths after the first: one more part of the work, one image each
LaterPaths ==
    { MakePath(<<"p">>, <<"b">>, t, 9, 1, 0, FALSE) :
        t \in {[default_path |-> <<"/", "m", "_", "7">>,
                regex |-> [lit |-> <<"_">>, digits |-> TRUE]]} }

RECURSIVE LaterSeqs(_)
LaterSeqs(n) ==
    IF n = 0 THEN { <<>> }
    ELSE LaterSeqs(n - 1) \cup
         { Append(q, h) : q \in { r \in LaterSeqs(n - 1) : Len(r) = n - 1 }, h \in LaterPaths }

Jobs(s) == { <<g>> \o q : g \in FirstPaths(s), q \in LaterSeqs(MaxPaths - 1) }

Years == { <<>>, <<1925>> }
Vols  == { <<>>, <<"2">> }

Namings(s) ==
    IF s = "loc_maps"
    THEN { [name |-> n, year |-> y, vol |-> v] :
             n \in { << <<"A">> >>, << <<"S", ".", "t">>, <<"B">> >> }, y \in Years, v \in Vols }
    ELSE { [name |-> n, state |-> <<"I", "L">>, year |-> y, vol |-> v,
            extension |-> <<"j", "p", "g">>] :
             n \in { <<"A">>, <<"S", ".", "t">> }, y \in Years, v \in Vols }

NoConfig == [host |-> <<>>, naming |-> [name |-> <<>>, year |-> <<>>, vol |-> <<>>], paths |-> <<>>]

NoResponse == [status |-> 0, content |-> "none"]

\* what the archive may answer: the status is not tied to the body
Responses == { [status |-> 200, content |-> "image"], [status |-> 404, content |-> "page"] }

-----------------------------------------------------------------------------
(* The run *)

Init ==
    /\ script \in {"loc_maps", "loc_sanborn"}
    /\ config_fault \in {"none", "unreadable", "no_key"}
    /\ IF config_fault = "none"
       THEN \E n \in Namings(script), j \in Jobs(script) :
                config = [host |-> Host, naming |-> n, paths |-> j]
       ELSE config = NoConfig
    /\ pc = "init"
    /\ path_ix = 0
    /\ i = 0
    /\ response = NoResponse
    /\ log = <<>>
    /\ log_name = <<>>
    /\ requests = <<>>
    /\ writes = <<>>
    /\ files = [n \in {} |-> "none"]
    /\ exit_code = <<>>

Record(level, kind, name) == [level |-> level, kind |-> kind, name |-> name]

\* read_yaml_file raises (no such file) or config[...][key] raises KeyError:
\* the exception leaves main() before the logger exists
ConfigError ==
    /\ pc = "init"
    /\ config_fault # "none"
    /\ pc' = "crashed"
    /\ exit_code' = <<1>>
    /\ UNCHANGED <<script, config_fault, config, path_ix, i, response, log, log_name,
                   requests, writes, files>>

\* configure_logger, then the start record
StartRun ==
    /\ pc = "init"
    /\ config_fault = "none"
    /\ log_name' = IF script = "loc_maps"
                   THEN create_filename(config.naming, <<>>, <<>>, LOG)
                   ELSE sanborn_log_filename(config.naming)
    /\ log' = Append(log, Record("INFO", "start", <<>>))
    /\ pc' = "paths"
    /\ UNCHANGED <<script, config_fault, config, path_ix, i, response, requests, writes,
                   files, exit_code>>

\* for path in ...['paths']: the next path, its range starts
NextPath ==
    /\ pc = "paths"
    /\ path_ix < Len(config.paths)
    /\ path_ix' = path_ix + 1
    /\ i' = config.paths[path_ix + 1].index_start
    /\ pc' = "range"
    /\ UNCHANGED <<script, config_fault, config, response, log, log_name, requests, writes,
                   files, exit_code>>

Request(ok, resp) ==
    [path_ix |-> path_ix, idx |-> i,
     repl |-> repl_of(script, config.paths[path_ix], i),
     url |-> resource_url_of(script, config.host, config.paths[path_ix], i),
     ok |-> ok, resp |-> resp]

\* requests.get returns a response
FetchOk ==
    /\ pc = "range"
    /\ i < config.paths[path_ix].index_stop
    /\ \E r \in Responses :
          /\ response' = r
          /\ requests' = Append(requests, Request(TRUE, r))
    /\ pc' = "fetched"
    /\ UNCHANGED <<script, config_fault, config, path_ix, i, log, log_name, writes, files,
                   exit_code>>

\* requests.get raises (DNS, connection refused, timeout): nothing catches it
FetchFail ==
    /\ pc = "range"
    /\ i < config.paths[path_ix].index_stop
    /\ requests' = Append(requests, Request(FALSE, NoResponse))
    /\ pc' = "crashed"
    /\ exit_code' = <<1>>
    /\ UNCHANGED <<script, config_fault, config, path_ix, i, response, log, log_name,
                   writes, files>>

\* create_filename, write_file, logger.info; then the next index
Store ==
    /\ pc = "fetched"
    /\ LET name == item_filename(script, config.naming, config.paths[path_ix], i)
           data == write_data(response)
       IN  /\ writes' = Append(writes, [path_ix |-> path_ix, idx |-> i,
                                        name |-> name, data |-> data])
           /\ files' = [n \in (DOMAIN files) \cup {name} |->
                           IF n = name THEN data ELSE files[n]]
           /\ log' = Append(log, Record("INFO", "renamed", name))
    /\ i' = range_next(i)
    /\ response' = NoResponse
    /\ pc' = "range"
    /\ UNCHANGED <<script, config_fault, config, path_ix, log_name, requests, exit_code>>

\* the range of the path is exhausted
RangeDone ==
    /\ pc = "range"
    /\ ~(i < config.paths[path_ix].index_stop)
    /\ pc' = "paths"
    /\ UNCHANGED <<script, config_fault, config, path_ix, i, response, log, log_name,
                   requests, writes, files, exit_code>>

\* no path is left: the end record, and main() returns
EndRun ==
    /\ pc = "paths"
    /\ path_ix = Len(config.paths)
    /\ log' = Append(log, Record("INFO", "end", <<>>))
    /\ pc' = "done"
    /\ exit_code' = <<0>>
    /\ UNCHANGED <<script, config_fault, config, path_ix, i, response, log_name, requests,
                   writes, files>>

Next ==
    \/ ConfigError
    \/ StartRun
    \/ NextPath
    \/ FetchOk
    \/ FetchFail
    \/ Store
    \/ RangeDone
    \/ EndRun

Spec == Init /\ [][Next]_vars

-----------------------------------------------------------------------------
(* Vocabulary of the properties *)

Stopped == pc \in {"done", "crashed"}

PathOf(k) == config.paths[k]

\* the width the numeral of a path is zero-filled to: index.zfill_width, or
\* 4 / 0 for pad_num
WidthOf(path) ==
    IF script = "loc_maps" THEN path.zfill_width ELSE (IF path.pad_num THEN 4 ELSE 0)

Larger(a, b) == IF a >= b THEN a ELSE b

\* s left-padded with '0' to width n, never cut
LeftPad(s, n) == IF Len(s) >= n THEN s ELSE Zeros(n - Len(s)) \o s

RECURSIVE DecimalValue(_)
DecimalValue(s) ==
    IF s = <<>> THEN 0
    ELSE 10 * DecimalValue(SubSeq(s, 1, Len(s) - 1))
           + (CHOOSE d \in 0..9 : DigitChars[d + 1] = s[Len(s)])

AllDigits(s) == \A k \in 1..Len(s) : IsDigit(s[k])

Occurs(lit, s) == \E p \in 1..Len(s) : p + Len(lit) - 1 <= Len(s)
                                        /\ SubSeq(s, p, p + Len(lit) - 1) = lit

EndsWith(s, t) == Len(s) >= Len(t) /\ SubSeq(s, Len(s) - Len(t) + 1, Len(s)) = t

IsPrefix(s, t) == Len(s) <= Len(t) /\ SubSeq(t, 1, Len(s)) = s

Item(g, k) == [path_ix |-> g, idx |-> k]

RangeItems(g) ==
    LET path == PathOf(g)
        n == IF path.index_stop > path.index_start
             THEN path.index_stop - path.index_start ELSE 0
    IN  [k \in 1..n |-> Item(g, path.index_start + k - 1)]

RECURSIVE ItemsFrom(_)
ItemsFrom(g) == IF g > Len(config.paths) THEN <<>> ELSE RangeItems(g) \o ItemsFrom(g + 1)

\* every (path, index) of the job, in configuration order then ascending
ExpectedItems == ItemsFrom(1)

Attempted == [k \in 1..Len(requests) |-> Item(requests[k].path_ix, requests[k].idx)]

Stored == [k \in 1..Len(writes) |-> Item(writes[k].path_ix, writes[k].idx)]

NoFetchFailed == \A k \in 1..Len(requests) : requests[k].ok

\* the segments the Filename Builder is specified to join, given the numeral
SpecifiedSegments(naming, part, numeral) ==
    LET base == IF script = "loc_maps" THEN naming.name
                ELSE <<SANBORN_LOC, naming.name, naming.state>>
        y == IF truthy_int(naming.year) THEN <<str(naming.year[1])>> ELSE <<>>
        v == IF naming.vol # <<>> THEN <<VOL \o naming.vol>> ELSE <<>>
        q == IF part # <<>> THEN <<part>> ELSE <<>>
    IN  base \o y \o v \o q \o <<numeral>>

ExtensionOf(naming) == IF script = "loc_maps" THEN JPG ELSE <<".">> \o naming.extension

SpecifiedFilename(naming, part, numeral) ==
    join(DASH, SpecifiedSegments(naming, part, numeral)) \o ExtensionOf(naming)

\* the builder of the running script, applied to a numeral
Built(naming, part, numeral) ==
    IF script = "loc_maps" THEN create_filename(naming, part, numeral, JPG)
    ELSE sanborn_create_filename(naming, numeral, part)

-----------------------------------------------------------------------------
(* C1 - a failed fetch does not abort the run *)

\* C1: once the run has stopped after a fetch failed with a network-level
\* failure, a fetch has been attempted for every index of every path and the
\* end record has been logged.
C1_FailedFetchDoesNotAbort ==
    (Stopped /\ ~NoFetchFailed) =>
        /\ Attempted = ExpectedItems
        /\ log # <<>> /\ log[Len(log)].kind = "end"

-----------------------------------------------------------------------------
(* C2 - one pass, in order, strictly sequential *)

\* C2: while no fetch has failed, the fetches made are a prefix of the list of
\* all (path, index) pairs with index_start <= index < index_stop, in path order
\* then ascending index; at the end they are that list exactly; and every item
\* but the one being processed has been stored before the next fetch is made.
C2_SinglePassInOrder ==
    NoFetchFailed =>
        /\ IsPrefix(Attempted, ExpectedItems)
        /\ (pc = "done" => Attempted = ExpectedItems)
        /\ Len(writes) = (IF pc = "fetched" THEN Len(requests) - 1 ELSE Len(requests))
        /\ IsPrefix(Stored, Attempted)

C2_Witness ==
    /\ pc = "done"
    /\ NoFetchFailed
    /\ Len(config.paths) = 2
    /\ Len(requests) = 3
    /\ requests[1].idx = 9 /\ requests[2].idx = 10 /\ requests[3].path_ix = 2
    /\ Len(writes) = 3

-----------------------------------------------------------------------------
(* C3 - shape of the image filename *)

\* C3: every image filename is the base name segments, str(year) if present,
\* one vol_<volume> segment if a volume is present, part if present and the
\* padded numeral, joined with '-' and followed by '.' and the extension.
C3_FilenameShape ==
    \A k \in 1..Len(writes) :
        LET path == PathOf(writes[k].path_ix)
            numeral == LeftPad(str(writes[k].idx), Larger(4, WidthOf(path)))
        IN  writes[k].name = SpecifiedFilename(config.naming, path.part, numeral)

-----------------------------------------------------------------------------
(* C4 - the replacement token *)

\* C4: the token substituted into the path is the prefix followed by a numeral
\* of length >= the zero-fill width w that is str(i) when len(str(i)) >= w or
\* w = 0, and otherwise str(i) left-padded with '0' to exactly width w; the
\* numeral is made of digits and denotes i.
C4_ReplacementToken ==
    \A k \in 1..Len(requests) :
        LET r == requests[k]
            path == PathOf(r.path_ix)
            w == WidthOf(path)
            p == path.prefix
            numeral == SubSeq(r.repl, Len(p) + 1, Len(r.repl))
            d == str(r.idx)
        IN  /\ IsPrefix(p, r.repl)
            /\ Len(numeral) >= w
            /\ AllDigits(numeral) /\ DecimalValue(numeral) = r.idx
            /\ IF Len(d) >= w \/ w = 0
               THEN numeral = d
               ELSE Len(numeral) = w /\ numeral = Zeros(w - Len(d)) \o d

C4_Witness ==
    \E k \in 1..Len(requests) :
        /\ script = "loc_maps"
        /\ PathOf(requests[k].path_ix).zfill_width = 6
        /\ requests[k].idx = 10
        /\ requests[k].repl = <<"p", "0", "0", "0", "0", "1", "0">>

-----------------------------------------------------------------------------
(* C5 - no two items of a path share a filename *)

\* C5: two items stored for the same path with different indexes have
\* different filenames.
C5_DistinctFilenames ==
    \A a, b \in 1..Len(writes) :
        (writes[a].path_ix = writes[b].path_ix /\ writes[a].idx # writes[b].idx)
            => writes[a].name # writes[b].name

-----------------------------------------------------------------------------
(* C6 - the numeral segment and the zero-fill width *)

\* C6 as stated: the numeral of the filename is str(index) left-padded to a
\* minimum width of 4 whatever the path's zero-fill width, so the filename is
\* the one a path with zero-fill width 0 gets.
C6_NumeralIndependentOfWidth ==
    \A k \in 1..Len(writes) :
        writes[k].name = Built(config.naming, PathOf(writes[k].path_ix).part,
                               LeftPad(str(writes[k].idx), 4))

\* C6 amended: the numeral the builder appends is str(index) left-padded to
\* width max(4, w), w the path's zero-fill width: the filename is the one built
\* from that numeral, it ends with -<numeral>.<extension> when no joined segment
\* holds a '.', and it is the width-0 filename whenever w <= 4.
C6_NumeralPaddedToLargerWidth ==
    \A k \in 1..Len(writes) :
        LET path == PathOf(writes[k].path_ix)
            w == WidthOf(path)
            numeral == LeftPad(str(writes[k].idx), Larger(4, w))
            joined == join(DASH, SpecifiedSegments(config.naming, path.part, numeral))
        IN  /\ writes[k].name = Built(config.naming, path.part, numeral)
            /\ (~Occurs(<<".">>, joined) =>
                    EndsWith(writes[k].name, DASH \o numeral \o ExtensionOf(config.naming)))
            /\ (w <= 4 => writes[k].name = Built(config.naming, path.part,
                                                 LeftPad(str(writes[k].idx), 4)))

C6_Witness ==
    \E k \in 1..Len(writes) :
        /\ script = "loc_maps"
        /\ PathOf(writes[k].path_ix).zfill_width = 6
        /\ writes[k].idx = 9
        /\ EndsWith(writes[k].name, <<"-", "0", "0", "0", "0", "0", "9", ".", "j", "p", "g">>)

-----------------------------------------------------------------------------
(* C7 - shape of the run log *)

\* C7: the log of a run that has stopped is the start record, one record per
\* attempted item in attempt order (INFO naming the stored file for a stored
\* item, ERROR for a failed fetch), then the end record.
C7_LogShape ==
    (Stopped /\ config_fault = "none") =>
        /\ Len(log) = Len(requests) + 2
        /\ log[1].kind = "start"
        /\ log[Len(log)].kind = "end"
        /\ \A k \in 1..Len(requests) :
              IF requests[k].ok
              THEN log[k + 1].level = "INFO" /\ log[k + 1].kind = "renamed"
              ELSE log[k + 1].level = "ERROR"

-----------------------------------------------------------------------------
(* C8 - a regex that matches nothing *)

\* C8: when the path's regex matches nothing in default_path, every request of
\* the path is made to host + default_path unchanged.
C8_NoMatchLeavesPathUnchanged ==
    \A k \in 1..Len(requests) :
        LET path == PathOf(requests[k].path_ix)
        IN  ~Occurs(path.regex.lit, path.default_path)
                => requests[k].url = config.host \o path.default_path

C8_Witness ==
    \E k \in 1..Len(requests) :
        /\ ~Occurs(PathOf(requests[k].path_ix).regex.lit,
                   PathOf(requests[k].path_ix).default_path)
        /\ PathOf(requests[k].path_ix).prefix = <<"p">>
        /\ requests[k].url = <<"h", "/", "m", "x", "7">>
        /\ requests[k].ok

-----------------------------------------------------------------------------
(* C9 - only configuration errors are fatal *)

\* C9: a run with a configuration error makes no request and writes no file
\* and ends with a nonzero status; a run without one never ends with a nonzero
\* status, whatever its fetches did.
C9_OnlyConfigErrorsAreFatal ==
    /\ (config_fault # "none" =>
            /\ requests = <<>> /\ writes = <<>>
            /\ (Stopped => exit_code = <<1>>))
    /\ ((config_fault = "none" /\ Stopped) => exit_code = <<0>>)

-----------------------------------------------------------------------------
(* C10 - a file is written exactly for the responses *)

\* C10: for every item whose iteration is over, a file has been written under
\* the item's computed filename exactly if the fetch returned a response, of
\* whatever status, and what was written is the response body.
C10_WrittenIffResponse ==
    \A k \in 1..Len(requests) :
        (k < Len(requests) \/ pc # "fetched") =>
            LET r == requests[k]
                W == { m \in 1..Len(writes) :
                         writes[m].path_ix = r.path_ix /\ writes[m].idx = r.idx }
            IN  /\ (W # {}) <=> r.ok
                /\ Cardinality(W) <= 1
                /\ \A m \in W :
                      /\ writes[m].data = r.resp.content
                      /\ writes[m].name =
                            item_filename(script, config.naming, PathOf(r.path_ix), r.idx)
                      /\ (m = Len(writes) =>
                             /\ writes[m].name \in DOMAIN files
                             /\ files[writes[m].name] = r.resp.content)

C10_Witness ==
    /\ pc = "crashed"
    /\ Len(requests) = 2
    /\ requests[1].ok /\ requests[1].resp.status = 404
    /\ ~requests[2].ok
    /\ Len(writes) = 1
    /\ files[writes[1].name] = "page"

====
